---- MODULE Spec2Model ----
(***************************************************************************)
(* Item-detail request batching of TyrianTracker.                          *)
(*                                                                         *)
(* client/src/hooks/use-item-details.ts keeps a module-level pending set   *)
(* (itemQueue) and one debounce timer handle (batchTimeout).  Every run of *)
(* the hook's queryFn adds its id, re-arms the timer and starts a 100 ms   *)
(* poll of the react-query cache; processBatch snapshots and clears the    *)
(* set, posts the snapshot to /api/items-bulk (server/routes.ts) and       *)
(* writes every returned item into the cache.                              *)
(*                                                                         *)
(* Time is counted in milliseconds and advances in steps of a quantum.     *)
(* Timers hold the time that remains until they fire.                      *)
(*                                                                         *)
(* The second part is the key and account API of server/routes.ts over the *)
(* in-memory store of server/storage.ts: each HTTP request is a process    *)
(* that takes one step per await the handler can be overtaken at.          *)
(***************************************************************************)
EXTENDS Integers, Sequences, FiniteSets, TLC

\* ---------------------------------------------------------------- bounds
MaxId == 3
MaxCallers == 3
MaxKey == 2
MaxRequests == 2
MaxSaves == 52
MaxProgress == 401

\* ------------------------------------------------------ program constants
Debounce == 50
PollInterval == 100
UpstreamLimit == 200

\* time steps: the coarse one is the debounce delay, the fine one resolves
\* the 40 ms gap of the documented scenario
Quantum == Debounce
FineQuantum == Debounce \div 5

ItemIds == 1..MaxId
InputIds == ItemIds \cup {0, -1}
Callers == 1..MaxCallers
Revs == {"r1", "r2"}
NoItem == [id |-> 0, rev |-> "none"]

VARIABLES
    itemQueue,      \* pending set, in insertion order (a JS Set)
    batchTimeout,   \* "null" or "set": the module-level timer handle
    timers,         \* remaining ms of every live setTimeout(processBatch)
    cache,          \* queryClient data of ["item", id]: id -> item
    stale,          \* ids whose cached data is older than staleTime
    fetching,       \* ids whose queryFn promise is pending
    poll,           \* id -> remaining ms of the waiter's setInterval
    want,           \* mounted caller -> the itemId it renders
    got,            \* mounted caller -> the data useItemDetails returned last
    mode,           \* mounted caller -> what useQuery did at its mount
    calls,          \* log of POST /api/items-bulk calls
    upstream,       \* call -> the id list of the GW2 /items request made for it
    mark,           \* id -> Len(calls) when its queryFn last started
    window,         \* ids whose queryFn ran since the last flush
    waited,         \* ms the oldest id of itemQueue has been pending
    resolved,       \* id -> the items its waiters resolved with, in order
    now,            \* wall clock in ms (advanced by ClockTick only)
    apiKeys,        \* MemStorage.apiKeys: key -> ApiKey record
    nextId,         \* the next id randomUUID() hands to createApiKey
    accounts,       \* MemStorage.accounts: ApiKey id -> account
    characters,     \* MemStorage.characters: account id -> saved list
    wallet,         \* MemStorage.wallet: account id -> saved list
    bankItems,      \* MemStorage.bankItems: account id -> saved list
    materials,      \* MemStorage.materials: account id -> saved list
    activities,     \* MemStorage.activities: account id -> list, newest first
    reqs,           \* the HTTP requests to the key and account routes
    saved,          \* account id -> every activity saved for it, oldest first
    recent,         \* the getRecentActivities call that returned last, if any
    calc            \* the achievement calculation of a validate-key request

clientVars ==
    <<itemQueue, batchTimeout, timers, cache, stale, fetching, poll,
      want, got, mode, calls, upstream, mark, window, waited, resolved, now>>

serverVars ==
    <<apiKeys, nextId, accounts, characters, wallet, bankItems, materials,
      activities, reqs, saved, recent, calc>>

vars == <<clientVars, serverVars>>

\* ---------------------------------------------------------------- helpers
Range(s) == {s[k] : k \in 1..Len(s)}

NoDup(s) == \A a, b \in 1..Len(s) : s[a] = s[b] => a = b

\* f with key k set to v (k may be new)
Put(f, k, v) == [x \in (DOMAIN f) \cup {k} |-> IF x = k THEN v ELSE f[x]]

\* f without key k
Drop(f, k) == [x \in (DOMAIN f) \ {k} |-> f[x]]

\* Set.prototype.add on an insertion-ordered set
SetAdd(q, i) == IF i \in Range(q) THEN q ELSE Append(q, i)

Init ==
    /\ itemQueue = <<>>
    /\ batchTimeout = "null"
    /\ timers = <<>>
    /\ cache = <<>>
    /\ stale = {}
    /\ fetching = {}
    /\ poll = <<>>
    /\ want = <<>>
    /\ got = <<>>
    /\ mode = <<>>
    /\ calls = <<>>
    /\ upstream = <<>>
    /\ mark = <<>>
    /\ window = {}
    /\ waited = 0
    /\ resolved = <<>>
    /\ now = 0
    /\ apiKeys = <<>>
    /\ nextId = 1
    /\ accounts = <<>>
    /\ characters = <<>>
    /\ wallet = <<>>
    /\ bankItems = <<>>
    /\ materials = <<>>
    /\ activities = <<>>
    /\ reqs = <<>>
    /\ saved = <<>>
    /\ recent = <<>>
    /\ calc = <<>>

\* ------------------------------------------------------------ react-query
\* enabled: !!itemId  -- 0, NaN and undefined are falsy, every other number
\* (negative ones included) is truthy
Enabled(i) == i # 0

\* staleTime left at its default of 0: cached data is always refetched
RunsQueryFn_NoStaleTime(i) ==
    /\ Enabled(i)
    /\ i \notin fetching

\* every caller runs the queryFn, with no sharing of the fetch in flight
RunsQueryFn_NoDedup(i) ==
    /\ Enabled(i)
    /\ (i \notin DOMAIN cache \/ i \in stale)

\* useQuery runs the queryFn on mount unless the query is disabled, a fetch
\* of the same query key is already in flight (the caller joins it), or the
\* cached data is younger than staleTime
RunsQueryFn(i) ==
    /\ Enabled(i)
    /\ i \notin fetching
    /\ (i \notin DOMAIN cache \/ i \in stale)

\* the data every observer of query ["item", i] is handed
QueryData(c, i) == IF i \in DOMAIN c THEN c[i] ELSE NoItem

\* observers of the queries in S are notified with the cache's new content
Notify(S, c) ==
    [x \in DOMAIN got |-> IF want[x] \in S THEN QueryData(c, want[x])
                                           ELSE got[x]]

\* ------------------------------------------------------------- the timer
\* if (batchTimeout) clearTimeout(batchTimeout): the handle is the newest
\* timer; clearing a timer that has fired already does nothing
ClearTimeout(ts) ==
    IF batchTimeout = "set" /\ ts # <<>> THEN SubSeq(ts, 1, Len(ts) - 1) ELSE ts

\* the delay counted from the first request: an armed timer is left alone
Rearm_KeepFirst(ts) == IF ts # <<>> THEN ts ELSE Append(ts, Debounce)

\* a timer is armed only while the handle is null, and the handle is never
\* reset after the timer has fired
Rearm_OnlyOnce(ts) == IF batchTimeout = "set" THEN ts ELSE Append(ts, Debounce)

\* a new timer is armed and the previous one is left running
Rearm_NoClear(ts) == Append(ts, Debounce)

\* batchTimeout = setTimeout(processBatch, 50)
Rearm(ts) == Append(ClearTimeout(ts), Debounce)

\* ---------------------------------------------------------------- queryFn
QueryFn(i) ==
    /\ itemQueue' = SetAdd(itemQueue, i)
    /\ timers' = Rearm(timers)
    /\ batchTimeout' = "set"
    /\ poll' = Put(poll, i, PollInterval)
    /\ fetching' = fetching \cup {i}
    /\ mark' = IF i \in fetching THEN mark ELSE Put(mark, i, Len(calls))
    /\ window' = window \cup {i}
    /\ waited' = IF itemQueue = <<>> THEN 0 ELSE waited

MountMode(i) ==
    IF RunsQueryFn(i) THEN "fetch"
    ELSE IF ~Enabled(i) THEN "disabled"
    ELSE IF i \in fetching THEN "join"
    ELSE "cached"

\* a component calls useItemDetails(i) for the first time
UseItemDetails(c, i) ==
    /\ c \notin DOMAIN want
    /\ \A b \in 1..(c - 1) : b \in DOMAIN want   \* callers are numbered as they mount
    /\ want' = Put(want, c, i)
    /\ got' = Put(got, c, QueryData(cache, i))
    /\ mode' = Put(mode, c, MountMode(i))
    /\ IF RunsQueryFn(i)
       THEN QueryFn(i)
       ELSE UNCHANGED <<itemQueue, timers, batchTimeout, poll, fetching,
                        mark, window, waited>>
    /\ UNCHANGED <<cache, stale, calls, upstream, resolved, now>>
    /\ UNCHANGED serverVars

\* ----------------------------------------------------------- processBatch
\* the set cleared before it is copied
Snapshot_AfterClear(q) == <<>>

\* const ids = Array.from(itemQueue); itemQueue.clear(); apiRequest(...)
Snapshot(q) == q

\* a bulk call of this run was rejected
HasFailed == \E k \in 1..Len(calls) : calls[k].status = "failed"

\* a flag raised by a failure makes every later flush return at once
ProcessBatch_StopsAfterFailure ==
    IF Len(itemQueue) = 0 \/ HasFailed
    THEN UNCHANGED <<itemQueue, calls, window, waited>>
    ELSE /\ calls' = Append(calls, [ids |-> Snapshot(itemQueue), at |-> now,
                                    status |-> "sent", items |-> {}])
         /\ itemQueue' = <<>>
         /\ window' = {}
         /\ waited' = 0

ProcessBatch ==
    IF Len(itemQueue) = 0
    THEN UNCHANGED <<itemQueue, calls, window, waited>>
    ELSE /\ calls' = Append(calls, [ids |-> Snapshot(itemQueue), at |-> now,
                                    status |-> "sent", items |-> {}])
         /\ itemQueue' = <<>>
         /\ window' = {}
         /\ waited' = 0

\* the armed timer fires and runs processBatch up to its await
TimerFires ==
    /\ timers # <<>>
    /\ Head(timers) = 0
    /\ timers' = Tail(timers)
    /\ ProcessBatch
    /\ UNCHANGED <<batchTimeout, cache, stale, fetching, poll, want, mode, got,
                   upstream, mark, resolved, now>>
    /\ UNCHANGED serverVars

\* ------------------------------------------------------ /api/items-bulk
SetStatus(k, st, its) ==
    [calls EXCEPT ![k] = [ids |-> calls[k].ids, at |-> calls[k].at,
                          status |-> st, items |-> its]]

\* the ids of one GW2 /items request made for a posted id list
UpstreamIds(ids) == ids

\* the guard is missing: an empty list is forwarded like any other
EmptyList_Never(ids) == FALSE

\* if (ids.length === 0) return res.json([])
EmptyList(ids) == Len(ids) = 0

\* the ids of the failed snapshot are put back into the pending set
PendingAfterFailure_Retry(q, ids) ==
    LET New(i) == i \notin Range(q)
    IN  q \o SelectSeq(ids, New)

\* what the catch block of processBatch leaves in the pending set
PendingAfterFailure(q, ids) == q

\* the handler up to its await of fetchGW2API
ServerItemsBulk(k, authorized) ==
    /\ k \in 1..Len(calls)
    /\ calls[k].status = "sent"
    /\ IF ~authorized
       THEN \* 401: apiRequest rejects, the catch block only logs
            /\ calls' = SetStatus(k, "failed", {})
            /\ itemQueue' = PendingAfterFailure(itemQueue, calls[k].ids)
            /\ UNCHANGED upstream
       ELSE IF EmptyList(calls[k].ids)
       THEN /\ calls' = SetStatus(k, "ok", {})
            /\ UNCHANGED <<upstream, itemQueue>>
       ELSE /\ calls' = SetStatus(k, "upstream", {})
            /\ upstream' = Put(upstream, k, UpstreamIds(calls[k].ids))
            /\ UNCHANGED itemQueue
    /\ UNCHANGED <<batchTimeout, timers, cache, stale, fetching,
                   poll, want, mode, got, mark, window, waited, resolved, now>>
    /\ UNCHANGED serverVars

\* what the upstream may answer for a list of ids: the items of all of them,
\* or of all but some of the first MaxId ids of the list
Replies(ids) ==
    LET first == {ids[k] : k \in 1..(IF Len(ids) < MaxId THEN Len(ids) ELSE MaxId)}
    IN  {Range(ids) \ D : D \in SUBSET first}

\* the revision of the returned items; revisions of different ids are never
\* compared, so a reply with no cached id is called "r1"
RevChoice(S) == IF S \cap DOMAIN cache = {} THEN {"r1"} ELSE Revs

Items(S, rev) == {[id |-> i, rev |-> rev] : i \in S}

\* only the first item of the response is written
CacheItems_FirstOnly(c, its) ==
    IF its = {} THEN c
    ELSE LET it == CHOOSE x \in its : \A y \in its : x.id <= y.id
         IN  Put(c, it.id, it)

\* items.forEach(item => queryClient.setQueryData(["item", item.id], item))
CacheItems(c, its) ==
    [i \in (DOMAIN c) \cup {it.id : it \in its} |->
        IF \E it \in its : it.id = i
        THEN CHOOSE it \in its : it.id = i
        ELSE c[i]]

\* the upstream answers; the server relays; processBatch resumes
BulkSucceeds(k, S, rev) ==
    /\ k \in 1..Len(calls)
    /\ calls[k].status = "upstream"
    /\ S \in Replies(calls[k].ids)
    /\ rev \in RevChoice(S)
    /\ calls' = SetStatus(k, "ok", Items(S, rev))
    /\ cache' = CacheItems(cache, Items(S, rev))
    /\ stale' = stale \ S
    /\ got' = Notify(S, cache')
    /\ UNCHANGED <<itemQueue, batchTimeout, timers, fetching, poll, want, mode,
                   upstream, mark, window, waited, resolved, now>>
    /\ UNCHANGED serverVars

\* what the catch block of processBatch writes into the cache
OnFailure(c, ids) == c

\* fetchGW2API throws, the server answers 400, apiRequest rejects
BulkFails(k) ==
    /\ k \in 1..Len(calls)
    /\ calls[k].status = "upstream"
    /\ calls' = SetStatus(k, "failed", {})
    /\ cache' = OnFailure(cache, calls[k].ids)
    /\ itemQueue' = PendingAfterFailure(itemQueue, calls[k].ids)
    /\ UNCHANGED <<batchTimeout, timers, stale, fetching, poll,
                   want, mode, got, upstream, mark, window, waited, resolved, now>>
    /\ UNCHANGED serverVars

\* ------------------------------------------------------------ the waiter
Resolutions(i) == IF i \in DOMAIN resolved THEN resolved[i] ELSE <<>>

\* the waiter keeps the item of the first response that carried its id
Observed_FromResponse(i) ==
    LET ks == {k \in 1..Len(calls) : \E it \in calls[k].items : it.id = i}
        k1 == CHOOSE k \in ks : \A m \in ks : k <= m
    IN  IF ks = {} THEN cache[i]
        ELSE CHOOSE it \in calls[k1].items : it.id = i

\* const cachedData = queryClient.getQueryData(["item", itemId]), for an id
\* with a cache entry
Observed(i) == cache[i]

\* the interval is left running after the promise is resolved
StopPoll_KeepsPolling(p, i) == Put(p, i, PollInterval)

\* clearInterval(interval)
StopPoll(p, i) == Drop(p, i)

\* one tick of the waiter's setInterval(..., 100)
PollTick(i) ==
    /\ i \in DOMAIN poll
    /\ poll[i] = 0
    /\ IF i \in DOMAIN cache
       THEN /\ poll' = StopPoll(poll, i)
            /\ fetching' = fetching \ {i}
            /\ resolved' = Put(resolved, i, Append(Resolutions(i), Observed(i)))
            /\ stale' = stale \ {i}
            /\ got' = Notify({i}, cache)
       ELSE /\ poll' = Put(poll, i, PollInterval)
            /\ UNCHANGED <<fetching, resolved, stale, got>>
    /\ UNCHANGED <<itemQueue, batchTimeout, timers, cache, want, mode, calls,
                   upstream, mark, window, waited, now>>
    /\ UNCHANGED serverVars

\* staleTime (one hour) passes for a resolved query
StaleTimeElapses(i) ==
    /\ i \in DOMAIN cache
    /\ i \notin stale
    /\ i \notin fetching
    /\ stale' = stale \cup {i}
    /\ UNCHANGED <<itemQueue, batchTimeout, timers, cache, fetching, poll,
                   want, mode, got, calls, upstream, mark, window, waited,
                   resolved, now>>
    /\ UNCHANGED serverVars

\* ------------------------------------------------------------------ time
WaitCap == (MaxCallers + 1) * Debounce

Elapse(q) ==
    /\ \A k \in 1..Len(timers) : timers[k] > 0
    /\ \A i \in DOMAIN poll : poll[i] > 0
    /\ timers' = [k \in 1..Len(timers) |-> timers[k] - q]
    /\ poll' = [i \in DOMAIN poll |-> poll[i] - q]
    /\ waited' = IF itemQueue = <<>> THEN waited
                 ELSE IF waited + q > WaitCap THEN WaitCap
                 ELSE waited + q
    /\ UNCHANGED <<itemQueue, batchTimeout, cache, stale, fetching, want, mode,
                   got, calls, upstream, mark, window, resolved>>
    /\ UNCHANGED serverVars

Tick ==
    /\ timers # <<>> \/ DOMAIN poll # {}
    /\ Elapse(Quantum)
    /\ UNCHANGED now

\* item ids are interchangeable: they are numbered in the order in which
\* they are first requested
KnownIds == {want[c] : c \in DOMAIN want}

FreshOrKnown(i) == i \in ItemIds /\ \A j \in 1..(i - 1) : j \in KnownIds

Mount ==
    \E c \in Callers, i \in ItemIds : FreshOrKnown(i) /\ UseItemDetails(c, i)

Serve == \E k \in 1..Len(calls), a \in BOOLEAN : ServerItemsBulk(k, a)

Succeed ==
    \E k \in 1..Len(calls), r \in Revs :
        \E S \in Replies(calls[k].ids) : BulkSucceeds(k, S, r)

Fail == \E k \in 1..Len(calls) : BulkFails(k)

Poll == \E i \in DOMAIN poll : PollTick(i)

GoStale == \E i \in DOMAIN cache : StaleTimeElapses(i)

Next ==
    \/ Mount
    \/ TimerFires
    \/ Serve
    \/ Succeed
    \/ Fail
    \/ Poll
    \/ GoStale
    \/ Tick

Spec == Init /\ [][Next]_vars

\* ------------------------------------------------------- fair scheduling
\* The event loop runs every due timer and interval callback, time passes,
\* the server handles every request and every upstream call is answered.
Fairness ==
    /\ WF_vars(TimerFires)
    /\ WF_vars(Tick)
    /\ WF_vars(Serve)
    /\ WF_vars(Succeed \/ Fail)
    /\ \A i \in ItemIds : WF_vars(PollTick(i))

FairSpec == Spec /\ Fairness


\* ------------------------------------------- the documented timed scenario
\* ids 1, 2, 3 requested at 0 ms, id 4 at 40 ms, id 5 at 200 ms
Script ==
    << [at |-> 0, id |-> 1], [at |-> 0, id |-> 2], [at |-> 0, id |-> 3],
       [at |-> 40, id |-> 4], [at |-> 200, id |-> 5] >>

ScenarioEnd == 6 * Debounce

\* the next scripted request, made by the next caller at its time
ScriptedRequest ==
    LET c == Cardinality(DOMAIN want) + 1
    IN  /\ c \in 1..Len(Script)
        /\ Script[c].at = now
        /\ UseItemDetails(c, Script[c].id)

\* the clock advances, unless a scripted request is due now
ClockTick ==
    /\ now < ScenarioEnd
    /\ \A c \in 1..Len(Script) : c \notin DOMAIN want => Script[c].at > now
    /\ Elapse(FineQuantum)
    /\ now' = now + FineQuantum

ScenarioNext ==
    \/ ScriptedRequest
    \/ TimerFires
    \/ Serve
    \/ Succeed
    \/ Fail
    \/ Poll
    \/ ClockTick

ScenarioSpec == Init /\ [][ScenarioNext]_vars

\* ------------------------------------------------- rendering an inventory
\* one render commit mounts an item tooltip for each of the ids 1..n; the n
\* queryFn runs happen in the same task, so no timer fires between them
RenderSizes == {1, 2, 3, UpstreamLimit, UpstreamLimit + 1}

RenderInventory(n) ==
    /\ want = <<>>
    /\ want' = [c \in 1..n |-> c]
    /\ got' = [c \in 1..n |-> NoItem]
    /\ mode' = [c \in 1..n |-> "fetch"]
    /\ itemQueue' = [k \in 1..n |-> k]
    /\ timers' = Rearm(timers)
    /\ batchTimeout' = "set"
    /\ poll' = [i \in 1..n |-> PollInterval]
    /\ fetching' = 1..n
    /\ mark' = [i \in 1..n |-> Len(calls)]
    /\ window' = 1..n
    /\ waited' = 0
    /\ UNCHANGED <<cache, stale, calls, upstream, resolved, now>>
    /\ UNCHANGED serverVars

\* the interval callbacks of all waiters that are due run back to back:
\* PollTick for each of them, with no other event in between
PollRound ==
    LET due == {i \in DOMAIN poll : poll[i] = 0}
        hit == due \cap DOMAIN cache
    IN  /\ due # {}
        /\ poll' = [i \in (DOMAIN poll) \ hit |->
                       IF i \in due THEN PollInterval ELSE poll[i]]
        /\ fetching' = fetching \ hit
        /\ resolved' = [i \in (DOMAIN resolved) \cup hit |->
                           IF i \in hit THEN Append(Resolutions(i), Observed(i))
                           ELSE resolved[i]]
        /\ stale' = stale \ hit
        /\ got' = Notify(hit, cache)
        /\ UNCHANGED <<itemQueue, batchTimeout, timers, cache, want, mode,
                       calls, upstream, mark, window, waited, now>>
        /\ UNCHANGED serverVars

BulkNext ==
    \/ \E n \in RenderSizes : RenderInventory(n)
    \/ TimerFires
    \/ Serve
    \/ Succeed
    \/ Fail
    \/ PollRound
    \/ Tick

BulkSpec == Init /\ [][BulkNext]_vars

\* ------------------------------------------------- ids of any kind as input
\* a component passes whatever number it was given: a real item id, 0 (which
\* stands for every falsy itemId: 0, NaN, undefined) or a negative number
MountInput ==
    \E c \in Callers, i \in InputIds :
        /\ i \in ItemIds => FreshOrKnown(i)
        /\ UseItemDetails(c, i)

InputNext ==
    \/ MountInput
    \/ TimerFires
    \/ Serve
    \/ Succeed
    \/ Fail
    \/ Poll
    \/ Tick

InputSpec == Init /\ [][InputNext]_vars

\* ------------------------------------------- other clients of the endpoint
\* /api/items-bulk takes a post from any client.  Another client posts an
\* id list: the empty one, which the hook never posts (a list with ids is
\* handled like a post of the hook).
PostItemsBulk(ids) ==
    /\ Cardinality({k \in 1..Len(calls) : calls[k].ids = <<>>}) < MaxRequests
    /\ calls' = Append(calls, [ids |-> ids, at |-> now, status |-> "sent",
                               items |-> {}])
    /\ UNCHANGED <<itemQueue, batchTimeout, timers, cache, stale, fetching,
                   poll, want, mode, got, upstream, mark, window, waited,
                   resolved, now>>
    /\ UNCHANGED serverVars

PostEmpty == PostItemsBulk(<<>>)

\* the hook renders one inventory while the other client posts
OpenNext ==
    \/ \E n \in ItemIds : RenderInventory(n)
    \/ TimerFires
    \/ Serve
    \/ Succeed
    \/ Fail
    \/ PollRound
    \/ Tick
    \/ PostEmpty

OpenSpec == Init /\ [][OpenNext]_vars

\* =========================================================== the server
\* routes.ts over MemStorage (storage.ts).  A stored list is written as the
\* sequence of the requests whose upstream reply it came from.
ActivityLimit == 50

Keys == 1..MaxKey

\* the GW2 account a key belongs to
Owner(k) == k

\* Map.get(a) || []
Get(f, a) == IF a \in DOMAIN f THEN f[a] ELSE <<>>

\* a request as it reaches its handler
NewRequest(route, k) ==
    [route |-> route, key |-> k, pc |-> "start", id |-> 0, acct |-> 0,
     status |-> 0, body |-> <<>>]

\* an HTTP request arrives; keys are numbered in the order of their first use
Arrive(route, k) ==
    /\ Len(reqs) < MaxRequests
    /\ \A j \in 1..(k - 1) : \E r \in 1..Len(reqs) : reqs[r].key = j
    /\ reqs' = Append(reqs, NewRequest(route, k))
    /\ UNCHANGED <<apiKeys, nextId, accounts, characters, wallet, bankItems,
                   materials, activities>>
    /\ UNCHANGED <<saved, recent, calc>>
    /\ UNCHANGED clientVars

At(r, route, pc) ==
    /\ r \in 1..Len(reqs)
    /\ reqs[r].route = route
    /\ reqs[r].pc = pc

\* the handler of r moves on to pc
Goto(r, pc) == [reqs EXCEPT ![r].pc = pc]

\* res.status(st).json(body): the handler of r is done.  Of a body with
\* account details the account record is kept.
Respond(rs, r, st, body) ==
    [rs EXCEPT ![r].pc = "done", ![r].status = st, ![r].body = body]

\* storage.createApiKey: a new record with a new id replaces whatever the
\* map holds for the key
CreateApiKey(ks, k, id) ==
    Put(ks, k, [id |-> id, isValid |-> FALSE, permissions |-> {}])

\* storage.updateApiKey(key, {isValid: true, ..., permissions: ["account"]})
MarkValid(ks, k) ==
    IF k \notin DOMAIN ks THEN ks
    ELSE [ks EXCEPT ![k].isValid = TRUE, ![k].permissions = {"account"}]

\* storage.updateApiKey(key, {isValid: false, lastValidated})
MarkInvalid(ks, k) ==
    IF k \notin DOMAIN ks THEN ks
    ELSE [ks EXCEPT ![k].isValid = FALSE]

\* storage.createOrUpdateAccount: the stored account has no field for the
\* achievement points of accountData
CreateOrUpdateAccount(as, k, r, apiKeyId) ==
    Put(as, apiKeyId, [id |-> Owner(k), rev |-> r, apiKeyId |-> apiKeyId])

\* storage.getAccountWithDetails of an ApiKey id that has an account, read
\* from the given maps
DetailsOf(as, cs, ws, bs, ms, acts, apiKeyId) ==
    LET account == as[apiKeyId]
    IN  [account |-> account,
         characters |-> Get(cs, account.id),
         wallet |-> Get(ws, account.id),
         bankItems |-> Get(bs, account.id),
         materials |-> Get(ms, account.id),
         activities |-> Get(acts, account.id)]

Details(apiKeyId) ==
    DetailsOf(accounts, characters, wallet, bankItems, materials, activities,
              apiKeyId)

\* Array.prototype.slice(start, end) of a list: a negative index counts from
\* the end, and both are clamped to the list
Slice(s, start, end) ==
    LET len == Len(s)
        from == IF start < 0 THEN (IF len + start < 0 THEN 0 ELSE len + start)
                ELSE (IF start < len THEN start ELSE len)
        to == IF end < 0 THEN (IF len + end < 0 THEN 0 ELSE len + end)
              ELSE (IF end < len THEN end ELSE len)
    IN  SubSeq(s, from + 1, to)

\* the new activity is pushed to the end of the list
SaveActivity_KeepsOldest(acts, a, r) ==
    Put(acts, a, Slice(Get(acts, a) \o <<r>>, 0, ActivityLimit))

\* storage.saveActivity: existing.unshift(newActivity), then
\* activities.set(accountId, existing.slice(0, 50))
SaveActivity(acts, a, r) ==
    Put(acts, a, Slice(<<r>> \o Get(acts, a), 0, ActivityLimit))

\* storage.getRecentActivities(accountId, limit = 10); limit is <<>> when the
\* caller leaves it out and <<n>> when the caller passes n
DefaultLimit == 10

GetRecentActivities(acts, a, limit) ==
    Slice(Get(acts, a), 0, IF limit = <<>> THEN DefaultLimit ELSE limit[1])

\* ------------------------------------------------- POST /api/validate-key
\* let apiKey = await storage.getApiKey(key); a key that is found goes on to
\* fetchGW2API("/account", key)
ValidateStart(r) ==
    /\ At(r, "validate", "start")
    /\ reqs' = IF reqs[r].key \in DOMAIN apiKeys
               THEN [reqs EXCEPT ![r].pc = "account",
                                 ![r].id = apiKeys[reqs[r].key].id]
               ELSE Goto(r, "create")
    /\ UNCHANGED <<apiKeys, nextId, accounts, characters, wallet, bankItems,
                   materials, activities>>
    /\ UNCHANGED <<saved, recent, calc>>
    /\ UNCHANGED clientVars

\* apiKey = await storage.createApiKey({ key }); then fetchGW2API("/account")
ValidateCreate(r) ==
    /\ At(r, "validate", "create")
    /\ apiKeys' = CreateApiKey(apiKeys, reqs[r].key, nextId)
    /\ nextId' = nextId + 1
    /\ reqs' = [reqs EXCEPT ![r].pc = "account", ![r].id = nextId]
    /\ UNCHANGED <<accounts, characters, wallet, bankItems, materials,
                   activities>>
    /\ UNCHANGED <<saved, recent, calc>>
    /\ UNCHANGED clientVars

\* the catch of the inner try: the key is marked invalid, the error is
\* rethrown and the outer catch answers 400
ValidateFails(r) ==
    /\ apiKeys' = MarkInvalid(apiKeys, reqs[r].key)
    /\ reqs' = Respond(reqs, r, 400, <<>>)

\* /account is answered: the key is marked valid and the achievement
\* progress is requested, or the request fails
AccountReply(r, ok) ==
    /\ At(r, "validate", "account")
    /\ IF ok
       THEN /\ apiKeys' = MarkValid(apiKeys, reqs[r].key)
            /\ reqs' = Goto(r, "achievements")
       ELSE ValidateFails(r)
    /\ UNCHANGED <<nextId, accounts, characters, wallet, bankItems, materials,
                   activities>>
    /\ UNCHANGED <<saved, recent, calc>>
    /\ UNCHANGED clientVars

\* storage.createOrUpdateAccount(accountWithAchievements, apiKey.id) at the
\* end of the achievement calculation; then the characters are requested
StoreAccount(r, total) ==
    /\ At(r, "validate", "achievements")
    /\ accounts' = CreateOrUpdateAccount(accounts, reqs[r].key, r, reqs[r].id)
    /\ reqs' = [reqs EXCEPT ![r].pc = "characters",
                            ![r].acct = Owner(reqs[r].key)]
    /\ UNCHANGED <<apiKeys, nextId, characters, wallet, bankItems, materials,
                   activities>>
    /\ UNCHANGED <<saved, recent>>
    /\ UNCHANGED clientVars

\* the achievement calculation ends with a total or, if a request of it
\* fails, with 0; the account is stored and the characters are requested
AchievementsReply(r, total) ==
    /\ StoreAccount(r, total)
    /\ UNCHANGED calc

\* /characters?page=0 is answered: the list is saved and the wallet is
\* requested; a failure is not caught before the catch of the inner try
CharactersReply(r, ok) ==
    /\ At(r, "validate", "characters")
    /\ IF ok
       THEN /\ characters' = Put(characters, reqs[r].acct, <<r>>)
            /\ reqs' = Goto(r, "wallet")
            /\ UNCHANGED apiKeys
       ELSE /\ ValidateFails(r)
            /\ UNCHANGED characters
    /\ UNCHANGED <<nextId, accounts, wallet, bankItems, materials, activities>>
    /\ UNCHANGED <<saved, recent, calc>>
    /\ UNCHANGED clientVars

\* a section whose fetch failed is saved as the empty list
SaveSection_ClearsOnFailure(store, a, r, ok) ==
    IF ok THEN Put(store, a, <<r>>) ELSE Put(store, a, <<>>)

\* try { data = await fetchGW2API(...); await storage.save...(data, account.id) }
\* catch (error) { console.error(...) }
SaveSection(store, a, r, ok) ==
    IF ok THEN Put(store, a, <<r>>) ELSE store

\* /account/wallet is answered; its own catch only logs
WalletReply(r, ok) ==
    /\ At(r, "validate", "wallet")
    /\ wallet' = SaveSection(wallet, reqs[r].acct, r, ok)
    /\ reqs' = Goto(r, "bank")
    /\ UNCHANGED <<apiKeys, nextId, accounts, characters, bankItems, materials,
                   activities>>
    /\ UNCHANGED <<saved, recent, calc>>
    /\ UNCHANGED clientVars

\* /account/bank is answered; its own catch only logs
BankReply(r, ok) ==
    /\ At(r, "validate", "bank")
    /\ bankItems' = SaveSection(bankItems, reqs[r].acct, r, ok)
    /\ reqs' = Goto(r, "materials")
    /\ UNCHANGED <<apiKeys, nextId, accounts, characters, wallet, materials,
                   activities>>
    /\ UNCHANGED <<saved, recent, calc>>
    /\ UNCHANGED clientVars

\* /account/materials is answered; then the sample activity is saved and the
\* handler answers with the stored account and its details
MaterialsReply(r, ok) ==
    /\ At(r, "validate", "materials")
    /\ materials' = SaveSection(materials, reqs[r].acct, r, ok)
    /\ activities' = SaveActivity(activities, reqs[r].acct, r)
    /\ saved' = Put(saved, reqs[r].acct, Append(Get(saved, reqs[r].acct), r))
    /\ reqs' = Respond(reqs, r, 200,
                       IF reqs[r].id \in DOMAIN accounts
                       THEN <<DetailsOf(accounts, characters, wallet,
                                        bankItems, materials', activities',
                                        reqs[r].id).account>>
                       ELSE <<>>)
    /\ UNCHANGED <<apiKeys, nextId, accounts, characters, wallet, bankItems>>
    /\ UNCHANGED <<recent, calc>>
    /\ UNCHANGED clientVars

\* ------------------------------------- GET /api/account, POST /api/refresh
\* the guard only tests that the key has a record
KeyUsable_AnyRecord(k) == k \in DOMAIN apiKeys

\* !(!apiKey || !apiKey.isValid)
KeyUsable(k) == k \in DOMAIN apiKeys /\ apiKeys[k].isValid

\* const apiKey = await storage.getApiKey(key) and the 404 guard
AccountCheck(r) ==
    /\ At(r, "account", "start")
    /\ reqs' = IF KeyUsable(reqs[r].key)
               THEN [reqs EXCEPT ![r].pc = "read",
                                 ![r].id = apiKeys[reqs[r].key].id]
               ELSE Respond(reqs, r, 404, <<>>)
    /\ UNCHANGED <<apiKeys, nextId, accounts, characters, wallet, bankItems,
                   materials, activities>>
    /\ UNCHANGED <<saved, recent, calc>>
    /\ UNCHANGED clientVars

\* const account = await storage.getAccountWithDetails(apiKey.id)
AccountRead(r) ==
    /\ At(r, "account", "read")
    /\ reqs' = IF reqs[r].id \in DOMAIN accounts
               THEN Respond(reqs, r, 200, <<Details(reqs[r].id).account>>)
               ELSE Respond(reqs, r, 404, <<>>)
    /\ UNCHANGED <<apiKeys, nextId, accounts, characters, wallet, bankItems,
                   materials, activities>>
    /\ UNCHANGED <<saved, recent, calc>>
    /\ UNCHANGED clientVars

\* the 404 guard of the refresh route; a usable key goes on to
\* fetchGW2API("/account", key)
RefreshCheck(r) ==
    /\ At(r, "refresh", "start")
    /\ reqs' = IF KeyUsable(reqs[r].key)
               THEN [reqs EXCEPT ![r].pc = "account",
                                 ![r].id = apiKeys[reqs[r].key].id]
               ELSE Respond(reqs, r, 404, <<>>)
    /\ UNCHANGED <<apiKeys, nextId, accounts, characters, wallet, bankItems,
                   materials, activities>>
    /\ UNCHANGED <<saved, recent, calc>>
    /\ UNCHANGED clientVars

\* the catch of the refresh route marks the key invalid as the catch of
\* validate-key does
RefreshFailed_MarksInvalid(ks, k) == MarkInvalid(ks, k)

\* the key records after the catch of the refresh route, which only logs and
\* answers
RefreshFailed(ks, k) == ks

\* /account is answered: the account is stored and returned, or the catch
\* answers 500
RefreshReply(r, ok) ==
    /\ At(r, "refresh", "account")
    /\ IF ok
       THEN /\ accounts' = CreateOrUpdateAccount(accounts, reqs[r].key, r,
                                                 reqs[r].id)
            /\ reqs' = Respond(reqs, r, 200,
                               <<DetailsOf(accounts', characters, wallet,
                                           bankItems, materials, activities,
                                           reqs[r].id).account>>)
            /\ UNCHANGED apiKeys
       ELSE /\ reqs' = Respond(reqs, r, 500, <<>>)
            /\ apiKeys' = RefreshFailed(apiKeys, reqs[r].key)
            /\ UNCHANGED accounts
    /\ UNCHANGED <<nextId, characters, wallet, bankItems, materials,
                   activities>>
    /\ UNCHANGED <<saved, recent, calc>>
    /\ UNCHANGED clientVars

\* the totals an achievement calculation can end with
Totals == {0, 1}

Request == \E route \in {"validate", "account", "refresh"}, k \in Keys : Arrive(route, k)

Validate ==
    \E r \in 1..Len(reqs) :
        \/ ValidateStart(r)
        \/ ValidateCreate(r)
        \/ \E ok \in BOOLEAN : AccountReply(r, ok)
        \/ \E t \in Totals : AchievementsReply(r, t)
        \/ \E ok \in BOOLEAN : CharactersReply(r, ok)

Sections ==
    \E r \in 1..Len(reqs), ok \in BOOLEAN :
        \/ WalletReply(r, ok)
        \/ BankReply(r, ok)
        \/ MaterialsReply(r, ok)

GetAccount == \E r \in 1..Len(reqs) : AccountCheck(r) \/ AccountRead(r)

Refresh ==
    \E r \in 1..Len(reqs) :
        RefreshCheck(r) \/ \E ok \in BOOLEAN : RefreshReply(r, ok)

ServerNext ==
    \/ Request
    \/ Validate
    \/ Sections
    \/ GetAccount
    \/ Refresh

ServerSpec == Init /\ [][ServerNext]_vars

\* ------------------------------------------------ the activity feed alone
\* calls of storage.saveActivity and storage.getRecentActivities in any
\* order; the n-th activity saved for an account is written n
Limits == {<<>>, <<0>>, <<DefaultLimit + 1>>, <<ActivityLimit + 1>>}

\* the number of entries of the lists that f holds for the accounts of S
RECURSIVE TotalLen(_, _)
TotalLen(f, S) ==
    IF S = {} THEN 0
    ELSE LET a == CHOOSE x \in S : TRUE
         IN  Len(f[a]) + TotalLen(f, S \ {a})

SavedCount == TotalLen(saved, DOMAIN saved)

SaveCall(a) ==
    /\ SavedCount < MaxSaves
    /\ activities' = SaveActivity(activities, a, Len(Get(saved, a)) + 1)
    /\ saved' = Put(saved, a, Append(Get(saved, a), Len(Get(saved, a)) + 1))
    /\ recent' = <<>>
    /\ UNCHANGED <<apiKeys, nextId, accounts, characters, wallet, bankItems,
                   materials, reqs, calc>>
    /\ UNCHANGED clientVars

RecentCall(a, limit) ==
    /\ recent' = <<[account |-> a, limit |-> limit,
                    result |-> GetRecentActivities(activities, a, limit)]>>
    /\ UNCHANGED <<apiKeys, nextId, accounts, characters, wallet, bankItems,
                   materials, activities, reqs, saved, calc>>
    /\ UNCHANGED clientVars

ActivityNext ==
    \/ \E k \in Keys : SaveCall(Owner(k))
    \/ \E k \in Keys, limit \in Limits : RecentCall(Owner(k), limit)

ActivitySpec == Init /\ [][ActivityNext]_vars

\* ------------------------------- the achievement calculation step by step
\* One validate-key request followed through routes.ts 107-197; calc[r] holds
\* the local variables of the calculation of request r.
batchSize == 200

\* the progress list that /account/achievements answers with: n entries with
\* the ids 1..n and, with dup, one more entry for the id 1
Progress(n, dup) ==
    [j \in 1..(IF dup /\ n > 0 THEN n + 1 ELSE n) |->
        LET id == IF j > n THEN 1 ELSE j
        IN  [id |-> id, done |-> id % 2 = 1, repeated |-> id % 3]]

\* the lengths of the progress lists: those next to a multiple of the batch
\* size
Sizes == {n \in 0..MaxProgress : n % batchSize \in {0, 1, 2, batchSize - 1}}

\* the achievements the upstream knows, and the points it reports for them
Known(id) == id % 5 # 0

PointsOf(id) == id % 4

\* [...new Set(list)]: the values of the list in the order of their first
\* occurrence
Unique(list) ==
    LET First(j) == \A m \in 1..(j - 1) : list[m] # list[j]
        kept == SelectSeq([j \in 1..Len(list) |-> j], First)
    IN  [k \in 1..Len(kept) |-> list[kept[k]]]

\* accountAchievements.map(progress => progress.id)
IdsOf(progress) == [j \in 1..Len(progress) |-> progress[j].id]

\* the batch reaches one id into the next batch
Batch_Overlapping(ids, i) == Slice(ids, i, i + batchSize + 1)

\* achievementIds.slice(i, i + batchSize)
Batch(ids, i) == Slice(ids, i, i + batchSize)

\* batchDetails.forEach(ach => achievementPoints.set(ach.id, ach.points || 0))
\* for the reply to a batch, which has the achievements the upstream knows
SetPoints(points, batch) ==
    [id \in DOMAIN points \cup {batch[j] : j \in {x \in 1..Len(batch) : Known(batch[x])}} |->
        IF \E j \in 1..Len(batch) : batch[j] = id THEN PointsOf(id)
        ELSE points[id]]

\* what the progress p adds to the total: for a progress that is done, points
\* and, for a repeated one, points * repeated
Added(p, points) ==
    LET pts == IF p.id \in DOMAIN points THEN points[p.id] ELSE 0
    IN  IF p.done
        THEN pts + (IF p.repeated > 0 THEN pts * p.repeated ELSE 0)
        ELSE 0

\* accountAchievements.forEach over the entries lo..hi of the progress list
RECURSIVE SumPoints(_, _, _, _)
SumPoints(progress, points, lo, hi) ==
    IF lo > hi THEN 0
    ELSE IF lo = hi THEN Added(progress[lo], points)
    ELSE LET mid == (lo + hi) \div 2
         IN  SumPoints(progress, points, lo, mid)
                 + SumPoints(progress, points, mid + 1, hi)

\* the calculation of r goes on with the local variables c
Continue(r, c) ==
    /\ calc' = Put(calc, r, c)
    /\ UNCHANGED <<apiKeys, nextId, accounts, characters, wallet, bankItems,
                   materials, activities, reqs, saved, recent>>
    /\ UNCHANGED clientVars

\* the calculation of r ends with the local variables c and the account is
\* stored
Finish(r, c) ==
    /\ calc' = Put(calc, r, [c EXCEPT !.state = "stored"])
    /\ StoreAccount(r, c.total)

\* /account/achievements is answered.  Without ids nothing more is asked and
\* the total stays 0; a failure is caught and sets the total to 0.
ProgressReply(r, ok, n, dup) ==
    /\ At(r, "validate", "achievements")
    /\ r \notin DOMAIN calc
    /\ LET progress == IF ok THEN Progress(n, dup) ELSE <<>>
           ids == Unique(IdsOf(progress))
           c == [progress |-> progress, ids |-> ids, i |-> 0,
                 fetched |-> IF Len(ids) > 0 THEN <<Batch(ids, 0)>> ELSE <<>>,
                 answered |-> 0, points |-> <<>>, total |-> 0,
                 failed |-> ~ok, state |-> "batches"]
       IN  IF ok /\ Len(ids) > 0 THEN Continue(r, c) ELSE Finish(r, c)

\* /achievements?ids=... is answered for the batch at i: its points are set
\* and the next batch is requested, or after the last batch the points are
\* summed up; a failure is caught and sets the total to 0
BatchReply(r, ok) ==
    /\ At(r, "validate", "achievements")
    /\ r \in DOMAIN calc
    /\ LET c == calc[r]
           i == c.i + batchSize
           points == SetPoints(c.points, Batch(c.ids, c.i))
       IN  IF ~ok
           THEN Finish(r, [c EXCEPT !.answered = @ + 1, !.total = 0,
                                    !.failed = TRUE])
           ELSE IF i < Len(c.ids)
           THEN Continue(r, [c EXCEPT !.i = i, !.answered = @ + 1,
                                      !.points = points,
                                      !.fetched = Append(@, Batch(c.ids, i))])
           ELSE Finish(r, [c EXCEPT !.i = i, !.answered = @ + 1,
                                    !.points = points,
                                    !.total = SumPoints(c.progress, points, 1,
                                                        Len(c.progress))])

\* the one request of this specification
ValidateArrives ==
    /\ Len(reqs) = 0
    /\ Arrive("validate", 1)

Calculation ==
    \E r \in 1..Len(reqs), ok \in BOOLEAN :
        \/ \E n \in Sizes, dup \in BOOLEAN : ProgressReply(r, ok, n, dup)
        \/ BatchReply(r, ok)

Handler ==
    \E r \in 1..Len(reqs) :
        \/ ValidateStart(r)
        \/ ValidateCreate(r)
        \/ \E ok \in BOOLEAN : AccountReply(r, ok)
        \/ \E ok \in BOOLEAN : CharactersReply(r, ok)

AchievementNext ==
    \/ ValidateArrives
    \/ Handler
    \/ Calculation
    \/ Sections

AchievementSpec == Init /\ [][AchievementNext]_vars

TypeOK ==
    /\ NoDup(itemQueue)
    /\ batchTimeout \in {"null", "set"}
    /\ \A k \in 1..Len(timers) : timers[k] \in 0..Debounce
    /\ \A i \in DOMAIN cache : cache[i].id = i
    /\ DOMAIN got = DOMAIN want
    /\ \A i \in DOMAIN poll : poll[i] \in 0..PollInterval
    /\ DOMAIN apiKeys \subseteq Keys
    /\ \A k \in DOMAIN apiKeys : apiKeys[k].id \in 1..(nextId - 1)
    /\ \A a \in DOMAIN accounts : accounts[a].apiKeyId = a
    /\ \A a \in DOMAIN activities : Len(activities[a]) <= ActivityLimit
    /\ \A r \in 1..Len(reqs) :
          /\ reqs[r].status \in {0, 200, 400, 404, 500}
          /\ reqs[r].status # 0 <=> reqs[r].pc = "done"

\* ================================================================ claims
InFlight(k) == calls[k].status \in {"sent", "upstream"}

\* the calls issued since the pending fetch of i began that carry i
DispatchesOf(i) ==
    {k \in (mark[i] + 1)..Len(calls) : i \in Range(calls[k].ids)}

\* C1: the ids requested in one debounce window are exactly the pending set,
\* and a flush issues exactly one bulk call that carries exactly those ids,
\* each once, and empties the pending set.
C1_OneBulkCallPerWindow ==
    /\ [](NoDup(itemQueue) /\ Range(itemQueue) = window)
    /\ [][Len(calls') # Len(calls) =>
            /\ Len(calls') = Len(calls) + 1
            /\ window # {}
            /\ NoDup(calls'[Len(calls')].ids)
            /\ Range(calls'[Len(calls')].ids) = window
            /\ itemQueue' = <<>>
            /\ \A k \in 1..Len(calls) : calls'[k] = calls[k]]_vars

C1_Witness ==
    \E k \in 1..Len(calls) : Len(calls[k].ids) > 1

\* C2: while the fetch of an id is unresolved, the id is pending at most once
\* and dispatched at most once (never both), whoever else requests it in the
\* meantime, and all callers of that id hold the same data.
C2_SharedSingleDispatch ==
    /\ NoDup(itemQueue)
    /\ \A k \in 1..Len(calls) : NoDup(calls[k].ids)
    /\ \A i \in fetching :
          Cardinality(DispatchesOf(i))
            + (IF i \in Range(itemQueue) THEN 1 ELSE 0) <= 1
    /\ \A a, b \in DOMAIN want : want[a] = want[b] => got[a] = got[b]

C2_Witness ==
    \E a, b \in DOMAIN want :
        /\ a # b
        /\ want[a] = want[b]
        /\ mode[a] = "fetch"
        /\ mode[b] = "join"
        /\ got[a] # NoItem
        /\ got[a] = got[b]
        /\ Cardinality(DispatchesOf(want[a])) = 1

\* C3: under fair scheduling every waiter is released in the end: its id gets
\* a cache entry (a value or a failure sentinel) or its wait is abandoned.
C3_EventuallyResolved ==
    \A i \in ItemIds : (i \in fetching) ~> (i \notin fetching)

\* C4: after a failed bulk call every id of its request has a cache entry
\* (the failure sentinel) that releases its waiters.
C4_FailureSentinel ==
    \A k \in 1..Len(calls) :
        calls[k].status = "failed" =>
            \A i \in Range(calls[k].ids) : i \in DOMAIN cache

\* C5: every run of the queryFn leaves exactly one timer armed, 50 ms ahead;
\* in the scenario (ids 1, 2, 3 at 0 ms, id 4 at 40 ms, id 5 at 200 ms) there
\* is one dispatch at 90 ms with exactly {1,2,3,4} and a second one at 250 ms
\* with exactly {5}.
C5_DebounceScenario ==
    /\ [](/\ Len(calls) <= 2
          /\ (now > 90 => Len(calls) >= 1)
          /\ (now > 250 => Len(calls) = 2)
          /\ (Len(calls) >= 1 =>
                /\ calls[1].at = 90
                /\ NoDup(calls[1].ids)
                /\ Range(calls[1].ids) = {1, 2, 3, 4})
          /\ (Len(calls) >= 2 =>
                /\ calls[2].at = 250
                /\ calls[2].ids = <<5>>))
    /\ [][fetching' # fetching /\ fetching \subseteq fetching' =>
            timers' = <<Debounce>>]_vars

C5_Witness == Len(calls) = 2 /\ now > 250 /\ calls[2].at = 250

\* C6: an id whose fetch is unresolved is never lost: it is in the pending
\* set with a timer armed, or in the snapshot of a call issued since its
\* request.
C6_NoLostId ==
    \A i \in fetching :
        \/ i \in Range(itemQueue) /\ timers # <<>>
        \/ DispatchesOf(i) # {}

\* an id requested while an earlier bulk call is still in flight
C6_Witness ==
    /\ itemQueue # <<>>
    /\ timers # <<>>
    /\ \E k \in 1..Len(calls) : InFlight(k)

\* a caller mounts in this step
Mounts(c) == c \notin DOMAIN want /\ c \in DOMAIN want'

\* C7 as stated: a caller that asks for an id with a cache entry gets the
\* cached value at once and nothing is queued or armed for it.
C7_CachedNeverQueued ==
    [][\A c \in Callers :
          Mounts(c) /\ want'[c] \in DOMAIN cache =>
              /\ got'[c] = cache[want'[c]]
              /\ itemQueue' = itemQueue
              /\ timers' = timers
              /\ poll' = poll]_vars

\* C7 amended: the same for an id whose cache entry is younger than
\* staleTime.
C7_FreshCachedNeverQueued ==
    [][\A c \in Callers :
          Mounts(c) /\ want'[c] \in DOMAIN cache /\ want'[c] \notin stale =>
              /\ got'[c] = cache[want'[c]]
              /\ itemQueue' = itemQueue
              /\ timers' = timers
              /\ poll' = poll]_vars

C7_Witness ==
    \E c \in DOMAIN want :
        /\ mode[c] = "cached"
        /\ got[c] # NoItem
        /\ want[c] \notin fetching
        /\ Cardinality(DispatchesOf(want[c])) = 1

\* C8: a waiter whose bulk call failed without a cache entry for its id gives
\* up after its wait ceiling.
C8_WaitCeiling ==
    \A i \in ItemIds :
        (/\ i \in fetching
         /\ i \notin DOMAIN cache
         /\ \E k \in DispatchesOf(i) : calls[k].status = "failed")
            ~> (i \notin fetching)

\* C9: no call to /api/items-bulk and no GW2 /items request carries more than
\* 200 ids.
C9_ChunkLimit ==
    /\ \A k \in 1..Len(calls) : Len(calls[k].ids) <= UpstreamLimit
    /\ \A k \in DOMAIN upstream : Len(upstream[k]) <= UpstreamLimit

\* C10: the oldest pending id is flushed within a maximum accumulated wait
\* (here twice the debounce delay), however many requests follow it.
MaxAccumulatedWait == 2 * Debounce

C10_BoundedCoalescing == waited <= MaxAccumulatedWait

\* C11: an id that is not a positive number (0, a negative number, NaN,
\* undefined) never enters the pending set and is never part of a bulk call.
C11_InvalidIdRejected ==
    /\ \A k \in 1..Len(itemQueue) : itemQueue[k] > 0
    /\ \A k \in 1..Len(calls) : \A n \in 1..Len(calls[k].ids) : calls[k].ids[n] > 0

\* C12: at most one debounce timer is armed at any time, and an armed timer
\* always has a non-empty pending set to flush: a request that re-arms the
\* timer cancels the one that was running.
C12_OneTimerArmed ==
    /\ Len(timers) <= 1
    /\ timers # <<>> => itemQueue # <<>> /\ batchTimeout = "set"

\* a second request re-armed the timer after part of the delay had passed
C12_Witness ==
    /\ timers = <<Debounce>>
    /\ Len(itemQueue) >= 2
    /\ waited > 0

\* the bulk calls of the whole run that carry i
AllDispatchesOf(i) == {k \in 1..Len(calls) : i \in Range(calls[k].ids)}

\* the request cycles of i: the mounts that ran its queryFn
Cycles(i) == {c \in DOMAIN want : want[c] = i /\ mode[c] = "fetch"}

\* C13: an id moves Unrequested -> Pending -> Dispatched -> Resolved.  A
\* request cycle begins only for an id with no cache entry or with an entry
\* older than staleTime; only the start of a cycle puts the id into the
\* pending set; each cycle dispatches it at most once and resolves its
\* waiter at most once; an id gets its cache entry from a bulk call that
\* carried it.
C13_ResolvedIsTerminal ==
    /\ [](\A i \in KnownIds :
            /\ Cardinality(AllDispatchesOf(i))
                 + (IF i \in Range(itemQueue) THEN 1 ELSE 0)
                   <= Cardinality(Cycles(i))
            /\ Len(Resolutions(i)) <= Cardinality(Cycles(i))
            /\ i \in DOMAIN cache => AllDispatchesOf(i) # {})
    /\ [][\A c \in Callers :
            Mounts(c) /\ mode'[c] = "fetch" =>
                want'[c] \notin DOMAIN cache \/ want'[c] \in stale]_vars
    /\ [][\A i \in Range(itemQueue') \ Range(itemQueue) :
            \E c \in Callers :
                Mounts(c) /\ want'[c] = i /\ mode'[c] = "fetch"]_vars

\* a resolved id is asked for again and stays resolved while the dispatcher
\* flushes again for another id
C13_Witness ==
    \E i \in DOMAIN cache :
        /\ i \notin stale
        /\ i \notin fetching
        /\ Len(Resolutions(i)) = 1
        /\ Cardinality(AllDispatchesOf(i)) = 1
        /\ \E c \in DOMAIN want : want[c] = i /\ mode[c] = "cached"
        /\ \E k \in 1..Len(calls) : k \notin AllDispatchesOf(i)

\* the interval callback of the waiter of i runs in this step
Polls(i) ==
    /\ i \in DOMAIN poll
    /\ poll[i] = 0
    /\ i \notin DOMAIN poll' \/ poll'[i] # 0

\* C14: once a bulk call has failed, everything still works for the ids
\* requested from then on: a request that runs the queryFn puts its id into
\* the pending set and arms the timer, the timer's flush posts the pending
\* set in a new bulk call, a successful answer is written into the cache, and
\* the waiter's next poll resolves with the cached item.
C14_FailureDoesNotStop ==
    /\ [][HasFailed =>
            \A c \in Callers :
                Mounts(c) /\ mode'[c] = "fetch" =>
                    /\ want'[c] \in Range(itemQueue')
                    /\ timers' = <<Debounce>>]_vars
    /\ [][HasFailed /\ Len(timers') < Len(timers) /\ itemQueue # <<>> =>
            /\ Len(calls') = Len(calls) + 1
            /\ calls'[Len(calls')].ids = itemQueue
            /\ calls'[Len(calls')].status = "sent"
            /\ itemQueue' = <<>>]_vars
    /\ [][HasFailed =>
            \A k \in 1..Len(calls) :
                calls[k].status = "upstream" /\ calls'[k].status = "ok" =>
                    \A it \in calls'[k].items :
                        it.id \in DOMAIN cache' /\ cache'[it.id] = it]_vars
    /\ [][HasFailed =>
            \A i \in DOMAIN cache :
                Polls(i) =>
                    /\ i \notin fetching'
                    /\ Len(Resolutions(i)') = Len(Resolutions(i)) + 1
                    /\ Resolutions(i)'[Len(Resolutions(i)')] = cache[i]]_vars

\* an id requested after a flush whose call failed was dispatched in a later
\* call and its waiter resolved with an item of that call's answer
C14_Witness ==
    \E k1, k2 \in 1..Len(calls) : \E i \in DOMAIN resolved :
        /\ k1 < k2
        /\ calls[k1].status = "failed"
        /\ calls[k2].status = "ok"
        /\ i \in Range(calls[k2].ids)
        /\ mark[i] >= k1
        /\ i \notin fetching
        /\ resolved[i][Len(resolved[i])] \in calls[k2].items

\* the handler of r runs its first step
Starts(r) == reqs[r].pc = "start" /\ reqs'[r].pc # "start"

\* C15: GET /api/account/:key and POST /api/refresh/:key serve validated
\* keys only.  A request whose key has no stored record, or a record whose
\* isValid is not true, ends at the guard with 404 and no account data,
\* without an upstream call and without a change of the store; account
\* data is returned, and the upstream is called, only for a request that
\* passed the guard.
C15_ValidatedKeysOnly ==
    /\ [][\A r \in 1..Len(reqs) :
            /\ reqs[r].route \in {"account", "refresh"}
            /\ Starts(r)
            /\ ~(/\ reqs[r].key \in DOMAIN apiKeys
                 /\ apiKeys[reqs[r].key].isValid)
            => /\ reqs'[r].pc = "done"
               /\ reqs'[r].status = 404
               /\ reqs'[r].body = <<>>
               /\ reqs'[r].id = 0
               /\ accounts' = accounts
               /\ apiKeys' = apiKeys]_vars
    /\ [](\A r \in 1..Len(reqs) :
            reqs[r].route \in {"account", "refresh"} =>
                /\ reqs[r].body # <<>> => reqs[r].status = 200
                /\ reqs[r].status \in {200, 500} \/ reqs[r].pc \in {"read", "account"}
                     => reqs[r].id # 0)

\* a request was turned away for a key whose validation had failed
C15_Witness ==
    \E r, q \in 1..Len(reqs) :
        /\ reqs[r].route \in {"account", "refresh"}
        /\ reqs[r].status = 404
        /\ reqs[r].id = 0
        /\ reqs[r].key \in DOMAIN apiKeys
        /\ ~apiKeys[reqs[r].key].isValid
        /\ reqs[q].route = "validate"
        /\ reqs[q].key = reqs[r].key
        /\ reqs[q].status = 400

\* the upstream requests of validate-key for account data beyond /account
DataSections == {"characters", "wallet", "bank", "materials"}

\* C16: during validate-key a request for characters, wallet, bank or
\* materials is sent upstream only after a permission check of the key has
\* found the capability: the key's stored permissions, the only trace such a
\* check leaves, then hold a capability other than "account".
C16_PermissionBeforeData ==
    [][\A r \in 1..Len(reqs) :
          /\ reqs[r].route = "validate"
          /\ reqs'[r].pc \in DataSections
          /\ reqs'[r].pc # reqs[r].pc
          => /\ reqs[r].key \in DOMAIN apiKeys
             /\ apiKeys[reqs[r].key].permissions \ {"account"} # {}]_vars

\* the debounce timer fires in this step
Flushes == Len(timers') < Len(timers)

Answered(k) == calls[k].status = "upstream" /\ calls'[k].status = "ok"

\* C18: when a bulk call succeeds, every returned item is in the cache under
\* its own id, and the entry of every id the response does not contain is
\* what it was before: absent if it was absent, unchanged otherwise.
C18_ReturnedItemsCached ==
    [][\A k \in 1..Len(calls) :
          Answered(k) =>
              LET returned == {it.id : it \in calls'[k].items}
              IN  /\ \A it \in calls'[k].items :
                        it.id \in DOMAIN cache' /\ cache'[it.id] = it
                  /\ \A i \in (DOMAIN cache' \cup DOMAIN cache) \ returned :
                        /\ i \in DOMAIN cache
                        /\ i \in DOMAIN cache'
                        /\ cache'[i] = cache[i]]_vars

\* a call for three ids was answered with two items: both are cached, the
\* third id has no entry
C18_Witness ==
    \E k \in 1..Len(calls) :
        /\ calls[k].status = "ok"
        /\ Cardinality(calls[k].items) >= 2
        /\ \A it \in calls[k].items : it.id \in DOMAIN cache /\ cache[it.id] = it
        /\ \E i \in Range(calls[k].ids) :
              i \notin {it.id : it \in calls[k].items} /\ i \notin DOMAIN cache

\* C19: a waiter resolves only in a poll of its own, only when the cache has
\* an entry for its id, and with exactly that entry; the poll leaves the
\* cache as it is.  Every caller of an id holds what the cache holds for it,
\* so callers of the same id hold the same entry.
C19_CacheIsOnlyChannel ==
    /\ [][\A i \in DOMAIN resolved' :
            Resolutions(i)' # Resolutions(i) =>
                /\ Polls(i)
                /\ i \in DOMAIN cache
                /\ cache' = cache
                /\ Resolutions(i)' = Append(Resolutions(i), cache[i])]_vars
    /\ [][\A i \in DOMAIN poll :
            Polls(i) /\ i \notin DOMAIN cache =>
                i \in fetching' /\ Resolutions(i)' = Resolutions(i)]_vars
    /\ [](\A c \in DOMAIN want : got[c] = QueryData(cache, want[c]))

\* two waiters of one id, one after the other, each resolved with the entry
\* the cache held at its time
C19_Witness ==
    \E i \in DOMAIN resolved :
        /\ Len(resolved[i]) = 2
        /\ resolved[i][1] # resolved[i][2]
        /\ resolved[i][2] = cache[i]
        /\ \E a, b \in DOMAIN want :
              a # b /\ want[a] = i /\ want[b] = i /\ got[a] = cache[i] /\ got[b] = cache[i]

\* C20: a failed bulk call is not retried by the batching layer.  The step
\* in which a call fails leaves the pending set and the timers as they are
\* and issues no call; an id enters the pending set only in the step in
\* which a caller requests it; and while the request of a failed id is
\* unresolved the failed call stays the only one made for it.
C20_NoAutomaticRetry ==
    /\ [][\A k \in 1..Len(calls) :
            InFlight(k) /\ calls'[k].status = "failed" =>
                /\ itemQueue' = itemQueue
                /\ timers' = timers
                /\ upstream' = upstream
                /\ Len(calls') = Len(calls)]_vars
    /\ [][\A i \in Range(itemQueue') \ Range(itemQueue) :
            \E c \in Callers : Mounts(c) /\ want'[c] = i]_vars
    /\ [](\A k \in 1..Len(calls) :
            calls[k].status = "failed" =>
                \A i \in Range(calls[k].ids) \cap fetching :
                    k \in DispatchesOf(i) =>
                        DispatchesOf(i) = {k} /\ i \notin Range(itemQueue))

\* after a call failed the dispatcher flushed again, for other ids only
C20_Witness ==
    \E k, m \in 1..Len(calls) : \E i \in fetching :
        /\ calls[k].status = "failed"
        /\ DispatchesOf(i) = {k}
        /\ k < m
        /\ calls[m].status = "ok"
        /\ \E c \in DOMAIN want : want[c] = i /\ mode[c] = "join"

\* C21: each waiter resolves exactly once.  A waiter polls as long as, and
\* only as long as, its promise is unresolved; a poll that finds a cache
\* entry resolves the promise with it and stops the interval; every waiter
\* that has finished has one resolution and a pending one has none.
C21_OneResolutionPerWaiter ==
    /\ [](/\ DOMAIN poll = fetching
          /\ \A i \in KnownIds :
                Len(Resolutions(i)) + (IF i \in fetching THEN 1 ELSE 0)
                    = Cardinality(Cycles(i)))
    /\ [][\A i \in DOMAIN poll :
            Polls(i) /\ i \in DOMAIN cache =>
                /\ i \notin DOMAIN poll'
                /\ i \notin fetching'
                /\ Resolutions(i)' = Append(Resolutions(i), cache[i])]_vars

\* a waiter has resolved once and polls no more while another waiter still
\* polls
C21_Witness ==
    \E i \in DOMAIN resolved : \E j \in DOMAIN poll :
        /\ Len(resolved[i]) = 1
        /\ Cardinality(Cycles(i)) = 1
        /\ i \notin DOMAIN poll
        /\ j # i
        /\ poll[j] < PollInterval

\* the handler of r answers with status st in this step
Answers(r, st) == reqs[r].status = 0 /\ reqs'[r].status = st

\* C22: when validate-key answers success for a key, the stored record of
\* the key has isValid = true in the state of the response.
C22_SuccessMeansValid ==
    [][\A r \in 1..Len(reqs) :
          reqs[r].route = "validate" /\ Answers(r, 200) =>
              /\ reqs[r].key \in DOMAIN apiKeys'
              /\ apiKeys'[reqs[r].key].isValid]_vars

\* the handler of r stores an account in this step
SavesAccount(r) ==
    /\ reqs[r].pc \in {"achievements", "account"}
    /\ reqs[r].id \in DOMAIN accounts'
    /\ accounts'[reqs[r].id].rev = r
    /\ (reqs[r].id \in DOMAIN accounts => accounts[reqs[r].id].rev # r)

\* C23: the record of a key is created at most once and keeps its id, and a
\* validate-key request saves its account under the id that the record of
\* its key holds, which is the id GET /api/account/:key looks up.
C23_KeyIdStable ==
    [][/\ \A k \in DOMAIN apiKeys :
              k \in DOMAIN apiKeys' /\ apiKeys'[k].id = apiKeys[k].id
       /\ \A r \in 1..Len(reqs) :
              reqs[r].route = "validate" /\ SavesAccount(r) =>
                  /\ reqs[r].key \in DOMAIN apiKeys'
                  /\ apiKeys'[reqs[r].key].id = reqs[r].id]_vars

\* GET /api/account/:key answered r with 404 "Account not found": r passed
\* the guard of the key and found no account under the id of the record
AccountNotFound(r) ==
    /\ reqs[r].route = "account"
    /\ reqs[r].status = 404
    /\ reqs[r].id # 0

\* C24: a key whose stored record is valid has an account stored under the
\* id of the record, and no GET /api/account/:key that passed the guard of
\* the key is answered 404 "Account not found".
C24_ValidKeyHasAccount ==
    /\ \A k \in DOMAIN apiKeys :
          apiKeys[k].isValid => apiKeys[k].id \in DOMAIN accounts
    /\ \A r \in 1..Len(reqs) : ~AccountNotFound(r)

\* a store holds data that the handler of r wrote
Wrote(r) ==
    \/ \E a \in DOMAIN accounts : accounts[a].rev = r
    \/ \E f \in {characters, wallet, bankItems, materials, activities} :
          \E a \in DOMAIN f : \E n \in 1..Len(f[a]) : f[a][n] = r

\* C25: a validate-key request that is answered 400 wrote no account,
\* character, wallet, bank, material or activity data.
C25_FailureWritesNothing ==
    \A r \in 1..Len(reqs) :
        reqs[r].route = "validate" /\ reqs[r].status = 400 => ~Wrote(r)

\* the pc after the section that a validate-key request at pc fetches
NextSection(pc) ==
    CASE pc = "wallet" -> "bank"
      [] pc = "bank" -> "materials"
      [] pc = "materials" -> "done"

\* of the stores ws, bs and ms the one of the section fetched at pc
SectionStore(pc, ws, bs, ms) ==
    CASE pc = "wallet" -> ws
      [] pc = "bank" -> bs
      [] pc = "materials" -> ms

\* C26: a failure of the wallet, bank or materials fetch is isolated.  A step
\* of validate-key that ends the fetch of a section either saves the fetched
\* list or leaves the stored list of the section as it was; in both cases the
\* record of the key is not touched, the request goes on to the next section
\* and, after the materials, answers with success, never with a failure.
C26_SectionFailureIsolated ==
    [][\A r \in 1..Len(reqs) :
          /\ reqs[r].route = "validate"
          /\ reqs[r].pc \in {"wallet", "bank", "materials"}
          /\ reqs'[r] # reqs[r]
          => LET old == SectionStore(reqs[r].pc, wallet, bankItems, materials)
                 new == SectionStore(reqs[r].pc, wallet', bankItems', materials')
             IN  /\ new = old \/ new = Put(old, reqs[r].acct, <<r>>)
                 /\ apiKeys' = apiKeys
                 /\ reqs'[r].pc = NextSection(reqs[r].pc)
                 /\ reqs'[r].status
                        = (IF reqs[r].pc = "materials" THEN 200 ELSE 0)]_vars

\* the wallet fetch of a validate-key request failed and the request was
\* answered with success: the wallet holds the list of an earlier request,
\* the bank and the materials hold the lists of this one
C26_Witness ==
    \E r \in 1..Len(reqs) : \E q \in 1..Len(reqs) :
        /\ reqs[r].route = "validate" /\ reqs[r].status = 200
        /\ q # r
        /\ Get(wallet, reqs[r].acct) = <<q>>
        /\ Get(bankItems, reqs[r].acct) = <<r>>
        /\ Get(materials, reqs[r].acct) = <<r>>
        /\ reqs[r].key \in DOMAIN apiKeys /\ apiKeys[reqs[r].key].isValid

\* the n newest entries of a list that is kept oldest first, newest first
Newest(log, n) == [j \in 1..n |-> log[Len(log) - j + 1]]

\* C27: the activity list of an account holds at most 50 entries, newest
\* first, and these are the 50 activities saved last for the account;
\* getRecentActivities returns the first min(limit, length) entries of the
\* list, with 10 for a limit that is left out, and does not change the list.
C27_ActivityFeed ==
    /\ [](/\ DOMAIN activities = DOMAIN saved
          /\ \A a \in DOMAIN saved :
                /\ Len(activities[a]) <= 50
                /\ activities[a]
                       = Newest(saved[a], IF Len(saved[a]) < 50
                                          THEN Len(saved[a]) ELSE 50)
          /\ \A c \in 1..Len(recent) :
                LET list == Get(activities, recent[c].account)
                    limit == IF recent[c].limit = <<>> THEN 10
                             ELSE recent[c].limit[1]
                IN  recent[c].result
                        = SubSeq(list, 1, IF limit < Len(list) THEN limit
                                          ELSE Len(list)))
    /\ [][recent' # <<>> /\ recent' # recent => activities' = activities]_vars

\* an account for which more than 50 activities were saved is asked for its
\* recent activities without a limit
C27_Witness ==
    \E c \in 1..Len(recent) :
        /\ recent[c].limit = <<>>
        /\ Len(Get(saved, recent[c].account)) > ActivityLimit
        /\ Len(recent[c].result) = DefaultLimit

\* points * (1 + repeated) of a progress entry that is done, with the points
\* the upstream reports for its achievement
Earned(p) ==
    IF p.done
    THEN (IF Known(p.id) THEN PointsOf(p.id) ELSE 0) * (1 + p.repeated)
    ELSE 0

RECURSIVE SumEarned(_, _, _)
SumEarned(progress, lo, hi) ==
    IF lo > hi THEN 0
    ELSE IF lo = hi THEN Earned(progress[lo])
    ELSE LET mid == (lo + hi) \div 2
         IN  SumEarned(progress, lo, mid) + SumEarned(progress, mid + 1, hi)

\* the account record carries total as its achievement points
HasPoints(account, total) ==
    /\ "achievementPoints" \in DOMAIN account
    /\ account.achievementPoints = total

\* the total of a finished calculation is the sum the claim describes
TotalAsDescribed(r) ==
    calc[r].total = IF calc[r].failed THEN 0
                    ELSE SumEarned(calc[r].progress, 1, Len(calc[r].progress))

\* C28: the total of a finished achievement calculation is the sum of
\* points * (1 + repeated) over the progress entries that are done, 0 after a
\* failure; the account stored by validate-key carries that total, and so
\* does the account of the success response.
C28_AccountCarriesPoints ==
    \A r \in DOMAIN calc :
        calc[r].state = "stored" =>
            /\ TotalAsDescribed(r)
            /\ reqs[r].id \in DOMAIN accounts
            /\ HasPoints(accounts[reqs[r].id], calc[r].total)
            /\ reqs[r].status = 200 =>
                   /\ Len(reqs[r].body) = 1
                   /\ HasPoints(reqs[r].body[1], calc[r].total)

\* the batches in the order they were requested, as one list
RECURSIVE Flatten(_)
Flatten(batches) ==
    IF Len(batches) = 0 THEN <<>>
    ELSE batches[1] \o Flatten(Tail(batches))

\* C29: the unique achievement ids are fetched in batches of at most 200.  No
\* batch is empty, the batches follow the id list in its order, so that no id
\* is in two of them, and a calculation that ended without a failure has
\* requested every id; a batch is requested only when the one before it was
\* answered, and without ids nothing is requested.
C29_BatchesOfIds ==
    \A r \in DOMAIN calc :
        LET c == calc[r]
            all == Flatten(c.fetched)
        IN  /\ Cardinality({c.ids[m] : m \in 1..Len(c.ids)}) = Len(c.ids)
            /\ {c.ids[m] : m \in 1..Len(c.ids)}
                   = {c.progress[m].id : m \in 1..Len(c.progress)}
            /\ \A b \in 1..Len(c.fetched) :
                   Len(c.fetched[b]) >= 1 /\ Len(c.fetched[b]) <= 200
            /\ Len(all) <= Len(c.ids)
            /\ all = SubSeq(c.ids, 1, Len(all))
            /\ c.state = "stored" /\ ~c.failed => all = c.ids
            /\ Len(c.fetched) <= c.answered + 1
            /\ Len(c.ids) = 0 => c.fetched = <<>>

\* a calculation over a progress list with a repeated id ended after three
\* batches
C29_Witness ==
    \E r \in DOMAIN calc :
        /\ calc[r].state = "stored" /\ ~calc[r].failed
        /\ Len(calc[r].fetched) = 3
        /\ Len(calc[r].progress) > Len(calc[r].ids)
        /\ Len(calc[r].fetched[3]) = 1

\* C30: a refresh that is answered with success has replaced the account
\* stored under the id of the key and nothing else: the other accounts, the
\* characters, wallet, bank items, materials, activities and the key records
\* are as before.  A refresh whose upstream call fails is answered 500 and
\* changes nothing that is stored, the isValid flag of the key included, and
\* no other step of a refresh changes what is stored.
C30_RefreshFrame ==
    [][\A r \in 1..Len(reqs) :
          reqs[r].route = "refresh" /\ reqs'[r] # reqs[r] =>
              /\ <<apiKeys, characters, wallet, bankItems, materials,
                   activities>>'
                     = <<apiKeys, characters, wallet, bankItems, materials,
                         activities>>
              /\ IF Answers(r, 200)
                 THEN /\ DOMAIN accounts' = DOMAIN accounts \cup {reqs[r].id}
                      /\ accounts'[reqs[r].id].rev = r
                      /\ \A a \in DOMAIN accounts \ {reqs[r].id} :
                             accounts'[a] = accounts[a]
                 ELSE accounts' = accounts
              /\ reqs[r].pc = "account" => Answers(r, 200) \/ Answers(r, 500)
              /\ Answers(r, 500) => reqs[r].pc = "account"]_vars

\* a refresh was answered with success for a valid key: the account is the
\* one it stored, the characters are those of the validate-key before it
C30_Witness ==
    \E r \in 1..Len(reqs) : \E q \in 1..Len(reqs) :
        /\ reqs[r].route = "refresh" /\ reqs[r].status = 200
        /\ accounts[reqs[r].id].rev = r
        /\ reqs[q].route = "validate" /\ reqs[q].key = reqs[r].key
        /\ Get(characters, reqs[q].acct) = <<q>>
        /\ apiKeys[reqs[r].key].isValid
====
